---- MODULE Spec2Model ----
(***************************************************************************)
(* Model of app/services/llm_service.py: the LLMService gateway with its   *)
(* per-provider circuit breaker, the retry loop and the provider failover  *)
(* of generate_response, and health_check; and of                          *)
(* app/services/rag_engine.py: retrieve_documents over the document store, *)
(* _prepare_context, and generate_grounded_response / search_and_generate  *)
(* on top of the gateway.                                                  *)
(*                                                                         *)
(* In the answer pipeline a text (an answer) is kept as what                *)
(* _validate_source_grounding reads in it: the list of its "[Source N]"    *)
(* markers, each by its digits, and the number of its numeric or product   *)
(* claims that no document supports.  _validate_source_grounding and       *)
(* _detect_hallucination_indicators themselves are modelled on strings,    *)
(* with their regular expressions, in a section of their own.              *)
(*                                                                         *)
(* The service runs on one asyncio event loop.  A coroutine is suspended   *)
(* only at `await client.generate_response(...)` and at                    *)
(* `await asyncio.sleep(...)`; the code between two suspension points runs *)
(* atomically and is one action here.                                      *)
(*                                                                         *)
(* Time: the code compares `datetime.now() - last_failure` with            *)
(* timedelta(minutes=5).  The model keeps, for each provider, the minutes  *)
(* elapsed since the stored last_failure (the value of                     *)
(* `datetime.now() - last_failure`), saturated one minute above the        *)
(* cooldown; Tick lets TickMinutes minutes pass.                           *)
(*                                                                         *)
(* Not modelled: the text of requests and responses, and the metrics that  *)
(* are data of a response and that no branch reads (total_tokens_used,     *)
(* average_response_time, provider_usage).                                 *)
(***************************************************************************)
EXTENDS Integers, Sequences, FiniteSets, TLC

\* ---------------------------------------------------------------- bounds
\* Number of generate_response calls started in one behaviour.
MaxCalls == 4
\* Largest configured settings.llm_max_retries that Init draws.
MaxRetry == 1
\* Number of client calls of generate_response that fail in one behaviour.
MaxFaults == 4
\* Minutes that pass in one Tick.
TickMinutes == 3
\* Largest settings.llm_max_retries and settings.llm_retry_delay (seconds)
\* that the Init of the retry-loop specification draws.
MaxRetryDeep == 3
MaxDelay == 2
\* Largest number of documents of one collection in the store, and largest
\* top_k of a retrieve_documents call.
MaxHits == 2
MaxTopK == 3
\* Largest number of documents handed to _prepare_context.
MaxDocs == 3
\* Largest number of documents handed to generate_grounded_response.
MaxAnswerDocs == 2
\* Largest number of phrases of a response handed to _validate_source_grounding,
\* and largest number of documents handed to it.
MaxPhrases == 2
MaxValidatedDocs == 4

\* ------------------------------------------------------- program constants
\* `if state["failures"] >= 3` in _record_failure.
FailureThreshold == 3
\* `timedelta(minutes=5)` in _is_circuit_breaker_open.
CooldownMinutes == 5
\* `"last_failure": None`
NoFailure == -1

\* LLMProvider enum: the keys of circuit_breaker_state.
Providers == {"openai", "anthropic"}
\* `provider: Optional[str] = None`
NoProvider == "none"
\* self.clients.items() iterates in insertion order (_initialize_clients).
ClientOrder == <<"openai", "anthropic">>

\* The concurrent callers of generate_response on the event loop.
Callers == {"g1", "g2"}
\* The caller of health_check.
HealthCaller == "health"

\* What one `await client.generate_response(request)` ends in.
TransientErrors == {"LLMTimeoutError", "LLMRateLimitError"}
Outcomes == {"ok", "LLMProviderError"} \cup TransientErrors

\* The collections of the document store (two of them).
Collections == {"agricultural_knowledge", "government_schemes"}
\* `self.min_similarity_threshold = 0.3`; scores and distances are in hundredths.
MinSimilarityThreshold == 30
\* `similarity_threshold: float = None`
NoThreshold == -1
\* The distances of the stored documents from the query: the similarity
\* scores 0.9, 0.8, 0.75, 0.3 and 0.2.
Distances == {10, 20, 25, 70, 80}
\* The thresholds a caller passes: the default and 0.8.
Thresholds == {NoThreshold, 80}

\* `self.max_context_length = 4000`
MaxContextLength == 4000
\* len("[Source i]") for i < 10, and len("Source: Unknown").
SourceRefLength == 10
SourceInfoLength == 15
\* The lengths of the contents of the documents: with the 29 characters
\* around the content, 3971 fills the context exactly and 3972 overflows it.
ContentLengths == {100, 1900, 2000, 3971, 3972}

VARIABLES
    active,       \* environment: the callers that issue requests in this behaviour
    faults,       \* environment: client calls of generate_response that failed so far
    clients,      \* self.clients: the registered providers
    primary,      \* settings.primary_llm_provider
    fallback,     \* settings.fallback_llm_provider
    max_retries,  \* settings.llm_max_retries
    retry_delay,  \* settings.llm_retry_delay, in seconds
    cb,           \* self.circuit_breaker_state
    metrics,      \* self.metrics
    gen,          \* the frame of each caller's generate_response coroutine
    health,       \* the frame of the health_check coroutine
    started,      \* number of generate_response calls started so far
    probes,       \* history: client calls begun on a provider since it became half-open (saturates at 2)
    store,        \* the document store: for each collection the distances of its documents
                  \* from the query, nearest first
    outage,       \* environment: the collections whose query raises
    retrieval,    \* the last retrieve_documents call: its arguments and what it returned
    prepared,     \* the last _prepare_context call: its documents (the lengths of their
                  \* contents) and its context_parts
    grounding,    \* the frame of generate_grounded_response (and of search_and_generate
                  \* around it): its arguments and what it returned
    validation    \* the last _validate_source_grounding call: its response, the contents
                  \* of its documents, and the dictionary it returned

vars == <<active, faults, clients, primary, fallback, max_retries, retry_delay, cb, metrics,
          gen, health, started, probes, store, outage, retrieval, prepared, grounding,
          validation>>

\* The state of the RAG engine and of its document store.
rag == <<store, outage, retrieval, prepared, grounding, validation>>

\* What no action changes: the configuration and the set of callers.
settings == <<active, clients, primary, fallback, max_retries, retry_delay>>

Min(a, b) == IF a < b THEN a ELSE b

\* ------------------------------------------------------ circuit breaker

InitialCircuit == [failures |-> 0, last_failure |-> NoFailure, state |-> "closed"]

\* `last_failure and datetime.now() - last_failure > timedelta(minutes=5)`
CooldownElapsed(c) == c.last_failure # NoFailure /\ c.last_failure > CooldownMinutes

\* An Open circuit that is open whatever the time since the last failure.
IsCircuitBreakerOpenForGood(cbs, p) == cbs[p].state = "open"

\* _is_circuit_breaker_open: the value returned.
IsCircuitBreakerOpen(cbs, p) ==
    cbs[p].state = "open" /\ ~CooldownElapsed(cbs[p])

\* _is_circuit_breaker_open: the circuit state it leaves behind.
AfterCircuitCheck(cbs, p) ==
    IF cbs[p].state = "open" /\ CooldownElapsed(cbs[p])
    THEN [cbs EXCEPT ![p].state = "half-open"]
    ELSE cbs

\* _record_success that closes the circuit and keeps its failure count.
RecordSuccessKeepsCount(cbs, p) ==
    [cbs EXCEPT ![p] = [failures |-> cbs[p].failures, last_failure |-> NoFailure,
                        state |-> "closed"]]

\* _record_success
RecordSuccess(cbs, p) ==
    [cbs EXCEPT ![p] = [failures |-> 0, last_failure |-> NoFailure, state |-> "closed"]]

\* _record_failure opening the circuit one failure early.
RecordFailureEarly(cbs, p) ==
    LET n == cbs[p].failures + 1 IN
    [cbs EXCEPT ![p] = [failures |-> n,
                        last_failure |-> 0,
                        state |-> IF n >= FailureThreshold - 1 THEN "open" ELSE cbs[p].state]]

\* _record_failure that sets last_failure on the first failure only.
RecordFailureKeepsTime(cbs, p) ==
    LET n == cbs[p].failures + 1 IN
    [cbs EXCEPT ![p] = [failures |-> n,
                        last_failure |-> IF cbs[p].last_failure = NoFailure THEN 0
                                         ELSE cbs[p].last_failure,
                        state |-> IF n >= FailureThreshold THEN "open" ELSE cbs[p].state]]

\* _record_failure
RecordFailure(cbs, p) ==
    LET n == cbs[p].failures + 1 IN
    [cbs EXCEPT ![p] = [failures |-> n,
                        last_failure |-> 0,
                        state |-> IF n >= FailureThreshold THEN "open" ELSE cbs[p].state]]

\* -------------------------------------------------------- provider order

RECURSIVE Dedup(_)
\* list(dict.fromkeys(provider_order))
Dedup(s) ==
    IF s = <<>> THEN <<>>
    ELSE LET front == Dedup(SubSeq(s, 1, Len(s) - 1))
             last  == s[Len(s)]
         IN IF \E i \in 1..Len(front) : front[i] = last THEN front ELSE Append(front, last)

\* A provider order that puts the configured providers behind the preferred one.
ProviderOrderThenConfigured(provider) ==
    IF provider # NoProvider /\ provider \in clients
    THEN Dedup(<<provider, primary, fallback>>)
    ELSE Dedup(<<primary, fallback>>)

\* `# Determine provider order`
ProviderOrder(provider) ==
    IF provider # NoProvider /\ provider \in clients
    THEN <<provider>>
    ELSE Dedup(<<primary, fallback>>)

RECURSIVE Scan(_, _, _)
\* The head of the `for provider_name in provider_order` loop from candidate
\* i on: the candidates skipped, and the circuit check of the one attempted.
Scan(cbs, order, i) ==
    IF i > Len(order) THEN [cb |-> cbs, idx |-> i]
    ELSE IF order[i] \notin clients THEN Scan(cbs, order, i + 1)
    ELSE IF IsCircuitBreakerOpen(cbs, order[i]) THEN Scan(cbs, order, i + 1)
    ELSE [cb |-> AfterCircuitCheck(cbs, order[i]), idx |-> i]

\* -------------------------------------------------------------- frames

NoCalls == [p \in Providers |-> 0]
NoResults == [p \in Providers |-> "None"]

\* A frame: pc, the `provider` argument, provider_order and the position in
\* it, `attempt` and wait_time of _generate_with_retry (0: not assigned),
\* last_error, and the history of the call: for each provider the number of
\* client calls begun (calls) and how the last one ended (res).
IdleGen == [pc |-> "idle", provider |-> NoProvider, order |-> <<>>, idx |-> 0,
            attempt |-> 0, wait_time |-> 0, last_error |-> "None",
            calls |-> NoCalls, res |-> NoResults]

\* A generate_response that raises the generic error whatever was observed.
RaisedAlwaysGeneric(g) == "LLMError"

\* What generate_response raises at its end:
\* `raise last_error` or `raise LLMError("No LLM providers available ...")`.
Raised(g) == IF g.last_error = "None" THEN "LLMError" ELSE g.last_error

IdleHealth == [pc |-> "idle", idx |-> 0,
               providers |-> [p \in Providers |-> "None"], status |-> "None"]

InitialMetrics == [total_requests |-> 0, successful_requests |-> 0, failed_requests |-> 0,
                   error_counts |-> [e \in Outcomes \ {"ok"} |-> 0]]

\* The frame of a call that is over: how it ended, the request, the error
\* it raises and the history of the call (the other locals are gone).
Ended(g, how) ==
    [IdleGen EXCEPT !.pc = how, !.provider = g.provider, !.last_error = g.last_error,
                    !.calls = g.calls, !.res = g.res]

\* The provider the frame g is working on.
Current(g) == g.order[g.idx]

\* probes after a step that leaves the circuits as cbs and begins client
\* calls on the providers in called.
NextProbes(cbs, called) ==
    [p \in Providers |->
        IF cbs[p].state # "half-open" THEN 0
        ELSE IF p \in called THEN Min(probes[p] + 1, 2)
        ELSE probes[p]]

\* No retrieve_documents call yet.
IdleRetrieval == [pc |-> "idle", collections |-> <<>>, top_k |-> 0,
                  similarity_threshold |-> NoThreshold, result |-> <<>>]

\* No _prepare_context call yet.
NothingPrepared == [pc |-> "idle", documents |-> <<>>, context_parts |-> <<>>]

\* response_data before generate_grounded_response has returned.
NoResponseData ==
    [response |-> [kind |-> "None", source_references |-> <<>>, unsupported |-> 0],
     sources |-> <<>>,
     response_type |-> "None",
     fallback_used |-> FALSE,
     grounding_score |-> [num |-> 0, den |-> 1],
     is_well_grounded |-> FALSE,
     hallucination_risk |-> FALSE]

\* No generate_grounded_response call yet.
IdleGrounding == [pc |-> "idle", pipeline |-> FALSE, documents |-> <<>>, query |-> "None",
                  language |-> "None", response_data |-> NoResponseData]

\* No _validate_source_grounding call yet.
NotValidated ==
    [pc |-> "idle", response |-> <<>>, documents |-> <<>>,
     grounding_score |-> [num |-> 0, den |-> 1], total_sources |-> 0,
     referenced_sources |-> 0, source_references |-> <<>>, hallucination_risk |-> FALSE,
     hallucination_indicators |-> <<>>, is_well_grounded |-> FALSE]

\* The RAG engine is not used: an empty store.
RagIdle ==
    /\ store = [col \in Collections |-> <<>>]
    /\ outage = {}
    /\ retrieval = IdleRetrieval
    /\ prepared = NothingPrepared
    /\ grounding = IdleGrounding
    /\ validation = NotValidated

\* The state after LLMService.__init__, with no request in progress.
Constructed ==
    /\ faults = 0
    /\ cb = [p \in Providers |-> InitialCircuit]
    /\ metrics = InitialMetrics
    /\ gen = [c \in Callers |-> IdleGen]
    /\ health = IdleHealth
    /\ started = 0
    /\ probes = [p \in Providers |-> 0]

\* One caller, whose requests follow one another; every configuration of the
\* registered providers and of primary and fallback, up to exchanging the two
\* providers (generate_response treats them alike).
InitSeq ==
    /\ active = {"g1"}
    /\ clients \in (SUBSET Providers) \ {{}}
    /\ primary = "openai"
    /\ fallback \in Providers
    /\ max_retries \in 0..MaxRetry
    /\ retry_delay = 1
    /\ Constructed
    /\ RagIdle

\* Two callers whose requests overlap; one provider is registered.
InitConc ==
    /\ active = Callers
    /\ clients = {"openai"}
    /\ primary = "openai"
    /\ fallback = "anthropic"
    /\ max_retries \in 0..MaxRetry
    /\ retry_delay = 1
    /\ Constructed
    /\ RagIdle

Init == InitSeq \/ InitConc

\* One caller of generate_response beside the health checks; both providers
\* are registered, and the fallback provider is the primary one.
InitHealth ==
    /\ active = {"g1", HealthCaller}
    /\ clients = Providers
    /\ primary = "openai"
    /\ fallback = "openai"
    /\ max_retries \in 0..MaxRetry
    /\ retry_delay = 1
    /\ Constructed
    /\ RagIdle

\* One caller and one provider, with longer retry loops and several delays.
InitRetry ==
    /\ active = {"g1"}
    /\ clients = {"openai"}
    /\ primary = "openai"
    /\ fallback = "openai"
    /\ max_retries \in 0..MaxRetryDeep
    /\ retry_delay \in 1..MaxDelay
    /\ Constructed
    /\ RagIdle

\* --------------------------------------------------- generate_response

\* The provider loop of generate_response from candidate i on, in the frame g
\* with the circuits cbs and the metrics met: either the client call of the
\* next candidate that is not skipped begins, or the loop is over and the
\* call raises.
Advance(c, g, cbs, met, i) ==
    LET s == Scan(cbs, g.order, i) IN
    /\ cb' = s.cb
    /\ IF s.idx <= Len(g.order)
       THEN LET p == g.order[s.idx] IN
            /\ gen' = [gen EXCEPT ![c] = [g EXCEPT !.pc = "calling", !.idx = s.idx,
                                                   !.attempt = 0, !.wait_time = 0,
                                                   !.calls[p] = @ + 1]]
            /\ metrics' = met
            /\ probes' = NextProbes(s.cb, {p})
       ELSE /\ gen' = [gen EXCEPT ![c] = Ended(g, "raised")]
            /\ metrics' = [met EXCEPT !.failed_requests = @ + 1]
            /\ probes' = NextProbes(s.cb, {})

\* A generate_response whose `total_requests += 1` is lost when it is made
\* while another call is suspended.
StartCallLosingUpdate(c, provider) ==
    /\ gen[c].pc \in {"idle", "returned", "raised"}
    /\ c \in active
    /\ started < MaxCalls
    /\ started' = started + 1
    /\ Advance(c, [IdleGen EXCEPT !.provider = provider, !.order = ProviderOrder(provider)],
               cb,
               IF \E d \in Callers : gen[d].pc \in {"calling", "sleeping"}
               THEN metrics ELSE [metrics EXCEPT !.total_requests = @ + 1],
               1)
    /\ UNCHANGED <<faults, settings, health>>

\* generate_response up to its first suspension point: what it does to the
\* gateway.
StartCall(c, provider) ==
    /\ gen[c].pc \in {"idle", "returned", "raised"}
    /\ c \in active
    /\ started < MaxCalls
    /\ started' = started + 1
    /\ Advance(c, [IdleGen EXCEPT !.provider = provider, !.order = ProviderOrder(provider)],
               cb, [metrics EXCEPT !.total_requests = @ + 1], 1)
    /\ UNCHANGED <<faults, settings, health>>

\* generate_response called by a client of the gateway.
Start(c, provider) ==
    /\ StartCall(c, provider)
    /\ UNCHANGED rag

\* A generate_response that goes on to the next candidate after a response.
ReturnsOkAndGoesOn(c) ==
    /\ gen[c].pc = "calling"
    /\ LET p == Current(gen[c]) IN
       Advance(c, [gen[c] EXCEPT !.res[p] = "ok"], RecordSuccess(cb, p),
               [metrics EXCEPT !.successful_requests = @ + 1], gen[c].idx + 1)
    /\ UNCHANGED <<faults, settings, health, started, rag>>

\* `await client.generate_response(request)` of _generate_with_retry returns.
ReturnsOk(c) ==
    /\ gen[c].pc = "calling"
    /\ LET p == Current(gen[c])
           cbs == RecordSuccess(cb, p)
       IN /\ cb' = cbs
          /\ probes' = NextProbes(cbs, {})
          /\ metrics' = [metrics EXCEPT !.successful_requests = @ + 1]
          /\ gen' = [gen EXCEPT ![c] = Ended([gen[c] EXCEPT !.res[p] = "ok"], "returned")]
    /\ UNCHANGED <<faults, settings, health, started, rag>>

\* An except clause that takes LLMProviderError for a transient error too.
IsTransientAnyError(e) == e # "ok"

\* `except (LLMTimeoutError, LLMRateLimitError)`
IsTransient(e) == e \in TransientErrors

\* The retry loop going one attempt too far.
RetryAllowedOnceMore(attempt) == attempt # max_retries + 1

\* `if attempt == max_retries: ... raise e` does not apply: another attempt.
RetryAllowed(attempt) == attempt # max_retries

\* A backoff that grows by retry_delay with every attempt.
WaitTimeLinear(attempt) == retry_delay * (attempt + 1)

\* `wait_time = retry_delay * (2**attempt)`
WaitTime(attempt) == retry_delay * (2 ^ attempt)

\* A retry loop that records a failure at every failed attempt.
RaisesTransientRetryRecording(c, e) ==
    /\ gen[c].pc = "calling"
    /\ IsTransient(e)
    /\ RetryAllowed(gen[c].attempt)
    /\ faults < MaxFaults
    /\ faults' = faults + 1
    /\ gen' = [gen EXCEPT ![c].pc = "sleeping", ![c].res[Current(gen[c])] = e,
                          ![c].wait_time = WaitTime(gen[c].attempt)]
    /\ cb' = RecordFailure(cb, Current(gen[c]))
    /\ UNCHANGED <<settings, metrics, health, started, probes, rag>>

\* It raises LLMTimeoutError or LLMRateLimitError with retries left.
RaisesTransientRetry(c, e) ==
    /\ gen[c].pc = "calling"
    /\ IsTransient(e)
    /\ RetryAllowed(gen[c].attempt)
    /\ faults < MaxFaults
    /\ faults' = faults + 1
    /\ gen' = [gen EXCEPT ![c].pc = "sleeping", ![c].res[Current(gen[c])] = e,
                          ![c].wait_time = WaitTime(gen[c].attempt)]
    /\ UNCHANGED <<settings, cb, metrics, health, started, probes, rag>>

\* It raises a transient error on the last attempt, or LLMProviderError.
RaisesFinal(c, e) ==
    /\ gen[c].pc = "calling"
    /\ \/ IsTransient(e) /\ ~RetryAllowed(gen[c].attempt)
       \/ ~IsTransient(e)
    /\ faults < MaxFaults
    /\ faults' = faults + 1
    /\ LET p == Current(gen[c])
           g == [gen[c] EXCEPT !.last_error = e, !.res[p] = e]
       IN Advance(c, g, RecordFailure(cb, p),
                  [metrics EXCEPT !.error_counts[e] = @ + 1], gen[c].idx + 1)
    /\ UNCHANGED <<settings, health, started, rag>>

\* `await asyncio.sleep(wait_time)` is over: the next attempt begins.
Wake(c) ==
    /\ gen[c].pc = "sleeping"
    /\ LET p == Current(gen[c]) IN
       /\ gen' = [gen EXCEPT ![c].pc = "calling", ![c].attempt = @ + 1,
                             ![c].calls[p] = @ + 1]
       /\ probes' = NextProbes(cb, {p})
    /\ UNCHANGED <<faults, settings, cb, metrics, health, started, rag>>

\* -------------------------------------------------------- health_check

RECURSIVE HealthScan(_, _, _)
\* The `for provider_name, client in self.clients.items()` loop from
\* position i on, up to the next client call.
HealthScan(cbs, prov, i) ==
    IF i > Len(ClientOrder) THEN [cb |-> cbs, providers |-> prov, idx |-> i]
    ELSE LET p == ClientOrder[i] IN
         IF p \notin clients THEN HealthScan(cbs, prov, i + 1)
         ELSE IF IsCircuitBreakerOpen(cbs, p)
              THEN HealthScan(cbs, [prov EXCEPT ![p] = "circuit_breaker_open"], i + 1)
              ELSE [cb |-> AfterCircuitCheck(cbs, p), providers |-> prov, idx |-> i]

\* The end of health_check: the overall status.
OverallStatus(prov, status) ==
    IF \A p \in Providers : prov[p] # "healthy" THEN "unhealthy" ELSE status

HealthAdvance(prov, status, i) ==
    LET s == HealthScan(cb, prov, i) IN
    /\ cb' = s.cb
    /\ IF s.idx <= Len(ClientOrder)
       THEN /\ health' = [pc |-> "calling", idx |-> s.idx, providers |-> s.providers,
                          status |-> status]
            /\ probes' = NextProbes(s.cb, {ClientOrder[s.idx]})
       ELSE /\ health' = [pc |-> "done", idx |-> 0, providers |-> s.providers,
                          status |-> OverallStatus(s.providers, status)]
            /\ probes' = NextProbes(s.cb, {})

HealthStart ==
    /\ HealthCaller \in active
    /\ health.pc \in {"idle", "done"}
    /\ HealthAdvance([p \in Providers |-> "None"], "healthy", 1)
    /\ UNCHANGED <<faults, settings, metrics, gen, started, rag>>

\* `await client.generate_response(test_request)` of health_check is over.
HealthReturns(ok) ==
    /\ health.pc = "calling"
    /\ LET p == ClientOrder[health.idx] IN
       IF ok
       THEN HealthAdvance([health.providers EXCEPT ![p] = "healthy"], health.status,
                          health.idx + 1)
       ELSE HealthAdvance([health.providers EXCEPT ![p] = "unhealthy"], "degraded",
                          health.idx + 1)
    /\ UNCHANGED <<faults, settings, metrics, gen, started, rag>>

\* ------------------------------------------------------------------ time

\* One minute passes.
Tick ==
    /\ \E p \in Providers : cb[p].last_failure \notin {NoFailure, CooldownMinutes + 1}
    /\ cb' = [p \in Providers |->
                IF cb[p].last_failure = NoFailure THEN cb[p]
                ELSE [cb[p] EXCEPT !.last_failure = Min(@ + TickMinutes, CooldownMinutes + 1)]]
    /\ UNCHANGED <<faults, settings, metrics, gen, health, started, probes, rag>>

\* The requests: generate_response and the passing of time.
Next ==
    \/ \E c \in Callers, provider \in Providers \cup {NoProvider} : Start(c, provider)
    \/ \E c \in Callers : ReturnsOk(c)
    \/ \E c \in Callers, e \in Outcomes \ {"ok"} : RaisesTransientRetry(c, e)
    \/ \E c \in Callers, e \in Outcomes \ {"ok"} : RaisesFinal(c, e)
    \/ \E c \in Callers : Wake(c)
    \/ Tick

Spec == Init /\ [][Next]_vars

\* The requests and the health checks.
NextHealth ==
    \/ Next
    \/ HealthStart
    \/ \E ok \in BOOLEAN : HealthReturns(ok)

SpecHealth == InitHealth /\ [][NextHealth]_vars

\* The requests of one caller on one provider, with longer retry loops.
SpecRetry == InitRetry /\ [][Next]_vars

\* --------------------------------------------------------- reset_metrics

\* reset_metrics: `self.metrics = LLMMetrics()`.  It is synchronous, and it
\* may be called while generate_response calls are suspended; these read
\* self.metrics again at each update.
ResetMetrics ==
    /\ metrics' = InitialMetrics
    /\ UNCHANGED <<faults, settings, cb, gen, health, started, probes, rag>>

\* Two callers whose requests overlap, on one provider, beside the resets.
InitMetrics ==
    /\ active = Callers
    /\ clients = {"openai"}
    /\ primary = "openai"
    /\ fallback = "openai"
    /\ max_retries \in 0..MaxRetry
    /\ retry_delay = 1
    /\ Constructed
    /\ RagIdle

\* The requests and the resets of the metrics.
NextMetrics ==
    \/ Next
    \/ ResetMetrics

SpecMetrics == InitMetrics /\ [][NextMetrics]_vars

\* ------------------------------------------- requests that keep arriving

\* reset_metrics once MaxCalls calls are counted and none is in progress; the
\* count of the calls begins anew with it, so that calls arrive for ever.
ResetMetricsAndCount ==
    /\ started = MaxCalls
    /\ \A c \in Callers : gen[c].pc \notin {"calling", "sleeping"}
    /\ started' = 0
    /\ metrics' = InitialMetrics
    /\ UNCHANGED <<faults, settings, cb, gen, health, probes, rag>>

\* One caller, one registered provider.
InitLive ==
    /\ active = {"g1"}
    /\ clients = {"openai"}
    /\ primary = "openai"
    /\ fallback = "anthropic"
    /\ max_retries \in 0..MaxRetry
    /\ retry_delay = 1
    /\ Constructed
    /\ RagIdle

NextLive ==
    \/ Next
    \/ ResetMetricsAndCount

\* Time passes; the event loop resumes a coroutine whose sleep is over; the
\* caller goes on calling; and the provider, which fails at most MaxFaults
\* times, answers a call that is left waiting for it.
SpecLive ==
    /\ InitLive
    /\ [][NextLive]_vars
    /\ WF_vars(Tick)
    /\ WF_vars(Wake("g1"))
    /\ WF_vars(\E provider \in Providers \cup {NoProvider} : Start("g1", provider))
    /\ WF_vars(ResetMetricsAndCount)
    /\ WF_vars(ReturnsOk("g1"))

\* ---------------------------------------------------- retrieve_documents

\* The lists of collections a caller passes: non-empty, without repetition.
CollectionLists ==
    {l \in UNION {[1..n -> Collections] : n \in 1..Cardinality(Collections)} :
        \A i, j \in DOMAIN l : i # j => l[i] # l[j]}

\* What the store holds for one collection: distances, nearest first.
RankedDistances ==
    {d \in UNION {[1..n -> Distances] : n \in 0..MaxHits} :
        \A i \in 1..(Len(d) - 1) : d[i] <= d[i + 1]}

\* vector_db.query_documents: the n_results nearest documents of the
\* collection, in the raw format of the store; a document is identified by
\* its collection and its rank in it.
QueryDocuments(col, n_results) ==
    LET n == Min(n_results, Len(store[col])) IN
    [documents |-> [i \in 1..n |-> <<col, i>>],
     distances |-> SubSeq(store[col], 1, n)]

\* embedding_service._format_search_results:
\* `"similarity_score": 1 - distances[i] if i < len(distances) else 0.0`
FormatSearchResults(raw) ==
    [i \in 1..Len(raw.documents) |->
        [id |-> raw.documents[i],
         collection |-> "Unknown",
         similarity_score |-> IF i <= Len(raw.distances) THEN 100 - raw.distances[i] ELSE 0]]

\* A filter that drops a score equal to the threshold.
AboveThreshold(result, similarity_threshold) ==
    result.similarity_score > similarity_threshold

\* `if result.get("similarity_score", 0) >= similarity_threshold`
AtLeastThreshold(result, similarity_threshold) ==
    result.similarity_score >= similarity_threshold

\* One turn of `for collection in collections`: the results it adds to
\* all_results, filtered and annotated with their collection.
FilteredResults(col, top_k, similarity_threshold) ==
    LET formatted == FormatSearchResults(QueryDocuments(col, top_k))
        filtered == SelectSeq(formatted,
                              LAMBDA r : AtLeastThreshold(r, similarity_threshold))
    IN [i \in 1..Len(filtered) |-> [filtered[i] EXCEPT !.collection = col]]

RECURSIVE AllResultsOrNone(_, _, _, _)
\* A loop that gives up all results when the query of one collection raises.
AllResultsOrNone(collections, i, top_k, similarity_threshold) ==
    IF \E j \in DOMAIN collections : collections[j] \in outage THEN <<>>
    ELSE IF i > Len(collections) THEN <<>>
    ELSE FilteredResults(collections[i], top_k, similarity_threshold)
         \o AllResultsOrNone(collections, i + 1, top_k, similarity_threshold)

RECURSIVE AllResults(_, _, _, _)
\* The `for collection in collections` loop from position i on: a
\* collection whose query raises is skipped (`except Exception: continue`).
AllResults(collections, i, top_k, similarity_threshold) ==
    IF i > Len(collections) THEN <<>>
    ELSE IF collections[i] \in outage
         THEN AllResults(collections, i + 1, top_k, similarity_threshold)
         ELSE FilteredResults(collections[i], top_k, similarity_threshold)
              \o AllResults(collections, i + 1, top_k, similarity_threshold)

RECURSIVE SortByScore(_)
\* `all_results.sort(key=..., reverse=True)`: a stable sort, so results of
\* equal score keep the order in which they were added.
SortByScore(results) ==
    IF results = <<>> THEN <<>>
    ELSE LET front == SortByScore(SubSeq(results, 1, Len(results) - 1))
             last == results[Len(results)]
             k == Cardinality({i \in 1..Len(front) :
                                  front[i].similarity_score >= last.similarity_score})
         IN SubSeq(front, 1, k) \o <<last>> \o SubSeq(front, k + 1, Len(front))

\* `if similarity_threshold is None: similarity_threshold = self.min_similarity_threshold`
EffectiveThreshold(similarity_threshold) ==
    IF similarity_threshold = NoThreshold THEN MinSimilarityThreshold
    ELSE similarity_threshold

\* retrieve_documents: what it returns.
RetrieveDocuments(collections, top_k, similarity_threshold) ==
    LET sorted == SortByScore(AllResults(collections, 1, top_k,
                                         EffectiveThreshold(similarity_threshold)))
    IN SubSeq(sorted, 1, Min(top_k, Len(sorted)))

\* A retrieve_documents call (it is synchronous: one step).  The engine
\* keeps nothing from one call to the next; a behaviour holds one call.
Retrieve(collections, top_k, similarity_threshold) ==
    /\ retrieval.pc = "idle"
    /\ retrieval' = [pc |-> "done", collections |-> collections, top_k |-> top_k,
                     similarity_threshold |-> similarity_threshold,
                     result |-> RetrieveDocuments(collections, top_k, similarity_threshold)]
    /\ UNCHANGED <<faults, settings, cb, metrics, gen, health, started, probes, store, outage,
                   prepared, grounding, validation>>

\* A store with documents, some collections out of service, no gateway caller.
InitRetrieve ==
    /\ active = {}
    /\ clients = Providers
    /\ primary = "openai"
    /\ fallback = "anthropic"
    /\ max_retries = 0
    /\ retry_delay = 1
    /\ Constructed
    /\ store \in [Collections -> RankedDistances]
    /\ outage \in SUBSET Collections
    /\ retrieval = IdleRetrieval
    /\ prepared = NothingPrepared
    /\ grounding = IdleGrounding
    /\ validation = NotValidated

NextRetrieve ==
    \E collections \in CollectionLists, top_k \in 1..MaxTopK,
       similarity_threshold \in Thresholds :
        Retrieve(collections, top_k, similarity_threshold)

SpecRetrieve == InitRetrieve /\ [][NextRetrieve]_vars

\* ------------------------------------------------------ _prepare_context

\* The document lists: the lengths of the contents, in rank order.
DocumentLists == UNION {[1..n -> ContentLengths] : n \in 0..MaxDocs}

\* len(doc_context) for `f"{source_ref} {source_info}\n{content}\n\n"`.
DocContextLength(content_length) ==
    SourceRefLength + 1 + SourceInfoLength + 1 + content_length + 2

RECURSIVE ContextPartsSkipping(_, _, _)
\* A loop that passes over a document that does not fit and goes on.
ContextPartsSkipping(documents, i, current_length) ==
    IF i > Len(documents) THEN <<>>
    ELSE LET n == DocContextLength(documents[i]) IN
         IF current_length + n > MaxContextLength
         THEN ContextPartsSkipping(documents, i + 1, current_length)
         ELSE <<[source |-> i, length |-> n]>>
              \o ContextPartsSkipping(documents, i + 1, current_length + n)

RECURSIVE ContextParts(_, _, _)
\* The `for i, doc in enumerate(documents)` loop from document i on: the
\* parts appended, each with the number of its [Source i] tag and its length.
ContextParts(documents, i, current_length) ==
    IF i > Len(documents) THEN <<>>
    ELSE LET n == DocContextLength(documents[i]) IN
         IF current_length + n > MaxContextLength
         THEN <<>>
         ELSE <<[source |-> i, length |-> n]>> \o ContextParts(documents, i + 1, current_length + n)

\* A _prepare_context call.
PrepareContext(documents) ==
    /\ prepared' = [pc |-> "done", documents |-> documents,
                    context_parts |-> ContextParts(documents, 1, 0)]
    /\ UNCHANGED <<faults, settings, cb, metrics, gen, health, started, probes, store, outage,
                   retrieval, grounding, validation>>

NextContext == \E documents \in DocumentLists : PrepareContext(documents)

\* _prepare_context on every document list; no store, no gateway caller.
InitContext ==
    /\ active = {}
    /\ clients = Providers
    /\ primary = "openai"
    /\ fallback = "anthropic"
    /\ max_retries = 0
    /\ retry_delay = 1
    /\ Constructed
    /\ RagIdle

SpecContext == InitContext /\ [][NextContext]_vars

\* ------------------------- generate_grounded_response, search_and_generate

\* `collections: Optional[List[str]] = None`: the default list.
DefaultCollections == <<"agricultural_knowledge", "government_schemes">>

\* The store of the grounded-answer specification: one document in each
\* collection, with similarity 0.9 and 0.8.
AnswerStore == [col \in Collections |->
                  IF col = "agricultural_knowledge" THEN <<10>> ELSE <<20>>]

\* The documents a caller hands to generate_grounded_response: results of
\* retrieve_documents on that store.
AnswerDocuments ==
    {[id |-> <<col, 1>>, collection |-> col, similarity_score |-> 100 - AnswerStore[col][1]] :
        col \in Collections}

\* len(doc["content"]) of each of them: two of them do not fit in one context.
AnswerContentLength(doc) == 2000

AnswerDocumentLists == UNION {[1..n -> AnswerDocuments] : n \in 0..MaxAnswerDocs}

\* metadata["category"] of a stored document: the documents of
\* government_schemes are government schemes, the others are general (and
\* their contents hold none of the words "scheme", "subsidy", "government").
Category(doc) ==
    IF doc.collection = "government_schemes" THEN "government_scheme" ELSE "General"

\* The queries: one that holds the word "scheme" and one that holds none of
\* the words _generate_simple_response_fallback looks for.
Queries == {"scheme", "general"}

\* "ta" has no entry in fallback_responses.
Languages == {"en", "hi", "ta"}

\* What the provider answers: a text that cites [Source 1] and is supported,
\* a text that cites nothing and makes one unsupported claim, or a text that
\* cites [Source 1] and [Source 2].
LLMTexts == {[kind |-> "generated", source_references |-> <<"1">>, unsupported |-> 0],
             [kind |-> "generated", source_references |-> <<>>, unsupported |-> 1],
             [kind |-> "generated", source_references |-> <<"1", "2">>, unsupported |-> 0]}

\* A no-information text that answers a scheme query in its own words.
FallbackTextByQuery(query, language) ==
    [kind |-> IF query = "scheme" THEN "no_information_scheme"
              ELSE IF language = "hi" THEN "no_information_hi" ELSE "no_information_en",
     source_references |-> <<>>, unsupported |-> 0]

\* `fallback_responses.get(language, fallback_responses["en"])`
FallbackText(query, language) ==
    [kind |-> IF language = "hi" THEN "no_information_hi" ELSE "no_information_en",
     source_references |-> <<>>, unsupported |-> 0]

\* _generate_fallback_response
GenerateFallbackResponse(query, language) ==
    [response |-> FallbackText(query, language),
     sources |-> <<>>,
     response_type |-> "fallback",
     fallback_used |-> FALSE,
     grounding_score |-> [num |-> 0, den |-> 1],
     is_well_grounded |-> FALSE,
     hallucination_risk |-> FALSE]

\* Descriptors in the reverse of the order of the documents.
CollectSourcesReversed(documents) ==
    [i \in 1..Len(documents) |->
        LET doc == documents[Len(documents) + 1 - i] IN
        [id |-> doc.id, collection |-> doc.collection, similarity_score |-> doc.similarity_score]]

\* `# Collect sources`: one descriptor for each document.
CollectSources(documents) ==
    [i \in 1..Len(documents) |->
        [id |-> documents[i].id, collection |-> documents[i].collection,
         similarity_score |-> documents[i].similarity_score]]

\* The "[Source i+1]" markers of the template text: _generate_scheme_response
\* cites the documents of category government_scheme, and
\* _generate_general_response cites every document.
TemplateReferences(documents, query) ==
    LET all == [i \in 1..Len(documents) |-> i]
        cited == IF query = "scheme"
                 THEN SelectSeq(all, LAMBDA i : Category(documents[i]) = "government_scheme")
                 ELSE all
    IN [j \in 1..Len(cited) |-> ToString(cited[j])]

\* A validation for which half of the documents cited is enough.
ValidateSourceGroundingFromHalf(response, documents) ==
    LET total_sources == Len(documents)
        referenced_sources ==
            Cardinality({response.source_references[i] : i \in DOMAIN response.source_references})
        den == IF total_sources > 1 THEN total_sources ELSE 1
    IN [grounding_score |-> [num |-> referenced_sources, den |-> den],
        hallucination_risk |-> response.unsupported > 0,
        is_well_grounded |-> 2 * referenced_sources >= den /\ response.unsupported = 0]

\* _validate_source_grounding; grounding_score is kept as a fraction.
ValidateSourceGrounding(response, documents) ==
    LET total_sources == Len(documents)
        referenced_sources ==
            Cardinality({response.source_references[i] : i \in DOMAIN response.source_references})
        den == IF total_sources > 1 THEN total_sources ELSE 1
    IN [grounding_score |-> [num |-> referenced_sources, den |-> den],
        hallucination_risk |-> response.unsupported > 0,
        is_well_grounded |-> 2 * referenced_sources > den /\ response.unsupported = 0]

\* response_data.update(grounding_validation)
Grounded(text, documents, fallback_used) ==
    LET v == ValidateSourceGrounding(text, documents) IN
    [response |-> text,
     sources |-> CollectSources(documents),
     response_type |-> "comprehensive",
     fallback_used |-> fallback_used,
     grounding_score |-> v.grounding_score,
     is_well_grounded |-> v.is_well_grounded,
     hallucination_risk |-> v.hallucination_risk]

\* A grounder that answers a gateway error with the no-information answer.
NoInformationOnError(documents, query, language) ==
    GenerateFallbackResponse(query, language)

\* _generate_simple_response_fallback, then the validation of its text.  The
\* text is made of snippets of the documents, which support their own claims.
GenerateSimpleResponseFallback(documents, query, language) ==
    Grounded([kind |-> "template",
              source_references |-> TemplateReferences(documents, query),
              unsupported |-> 0],
             documents, TRUE)

\* generate_grounded_response up to its suspension point.  The context of
\* _prepare_context goes into the prompt.  A behaviour holds one answer that
\* needs the gateway, and any number that do not.
Ground(pipeline, documents, query, language) ==
    /\ grounding.pc \in {"idle", "returned"}
    /\ IF documents = <<>>
       THEN /\ grounding' = [pc |-> "returned", pipeline |-> pipeline,
                             documents |-> documents, query |-> query, language |-> language,
                             response_data |-> GenerateFallbackResponse(query, language)]
            /\ UNCHANGED <<faults, settings, cb, metrics, gen, health, started, probes,
                           prepared>>
       ELSE /\ started = 0
            /\ LET lengths == [i \in 1..Len(documents) |-> AnswerContentLength(documents[i])]
               IN prepared' = [pc |-> "done", documents |-> lengths,
                               context_parts |-> ContextParts(lengths, 1, 0)]
            /\ StartCall("g1", NoProvider)
            /\ grounding' = [pc |-> "awaiting", pipeline |-> pipeline,
                             documents |-> documents, query |-> query, language |-> language,
                             response_data |-> NoResponseData]

\* generate_grounded_response called with documents.
GenerateGroundedResponse(documents, query, language) ==
    /\ Ground(FALSE, documents, query, language)
    /\ UNCHANGED <<store, outage, retrieval, validation>>

\* search_and_generate: retrieve_documents, then generate_grounded_response
\* on what it returned.
SearchAndGenerate(top_k, query, language) ==
    LET documents == RetrieveDocuments(DefaultCollections, top_k, NoThreshold) IN
    /\ retrieval' = [pc |-> "done", collections |-> DefaultCollections, top_k |-> top_k,
                     similarity_threshold |-> NoThreshold, result |-> documents]
    /\ Ground(TRUE, documents, query, language)
    /\ UNCHANGED <<store, outage, validation>>

\* `await llm_service.generate_response(...)` has returned a response.
GroundingReturns(text) ==
    /\ grounding.pc = "awaiting"
    /\ gen["g1"].pc = "returned"
    /\ grounding' = [grounding EXCEPT !.pc = "returned",
                                      !.response_data = Grounded(text, grounding.documents, FALSE)]
    /\ UNCHANGED <<faults, settings, cb, metrics, gen, health, started, probes, store, outage,
                   retrieval, prepared, validation>>

\* It has raised: `except Exception` of _generate_response_with_grounding.
GroundingFallsBack ==
    /\ grounding.pc = "awaiting"
    /\ gen["g1"].pc = "raised"
    /\ grounding' = [grounding EXCEPT
                        !.pc = "returned",
                        !.response_data = GenerateSimpleResponseFallback(
                                              grounding.documents, grounding.query,
                                              grounding.language)]
    /\ UNCHANGED <<faults, settings, cb, metrics, gen, health, started, probes, store, outage,
                   retrieval, prepared, validation>>

\* The RAG engine is the one caller of the gateway; no provider or one is
\* registered; any of the collections may be out of service.
InitAnswer ==
    /\ active = {"g1"}
    /\ clients \in {{}, {"openai"}}
    /\ primary = "openai"
    /\ fallback = "anthropic"
    /\ max_retries \in 0..MaxRetry
    /\ retry_delay = 1
    /\ Constructed
    /\ store = AnswerStore
    /\ outage \in SUBSET Collections
    /\ retrieval = IdleRetrieval
    /\ prepared = NothingPrepared
    /\ grounding = IdleGrounding
    /\ validation = NotValidated

\* The grounded answers and the steps of the gateway calls they make.
NextAnswer ==
    \/ \E documents \in AnswerDocumentLists, query \in Queries, language \in Languages :
          GenerateGroundedResponse(documents, query, language)
    \/ \E top_k \in 1..MaxTopK, query \in Queries, language \in Languages :
          SearchAndGenerate(top_k, query, language)
    \/ \E text \in LLMTexts : GroundingReturns(text)
    \/ GroundingFallsBack
    \/ \E c \in Callers : ReturnsOk(c)
    \/ \E c \in Callers, e \in Outcomes \ {"ok"} : RaisesTransientRetry(c, e)
    \/ \E c \in Callers, e \in Outcomes \ {"ok"} : RaisesFinal(c, e)
    \/ \E c \in Callers : Wake(c)

SpecAnswer == InitAnswer /\ [][NextAnswer]_vars

\* ------------- _validate_source_grounding, _detect_hallucination_indicators
\* Here a string is a sequence of pieces: a digit is a piece of its own, and
\* so are a blank, "%", "]", the opening "[Source " of a marker, and each
\* run of letters below.  No piece occurs inside another one or across two
\* others, so that one string is a substring of another exactly when its
\* pieces are a contiguous part of the other's.  There is no decimal point.

Digits == {"0", "1", "2", "5"}

Blank == " "

SourceOpen == "[Source "

SourceClose == "]"

\* `(?:percent|%|rupees|rs|kg|quintal|acre|hectare)`
Units == {"percent", "%", "rupees", "rs", "kg", "quintal", "acre", "hectare"}

\* `(?:azole|mycin|bendazim|conazole|thiram|captan|mancozeb)`
ChemicalSuffixes == {"azole", "mycin", "bendazim", "conazole", "thiram", "captan", "mancozeb"}

\* `(?:EC|WP|SL|G)`
Formulations == {"EC", "WP", "SL", "G"}

\* `[A-Z][a-z]*`: the capitalised beginnings of a word.
CapitalStems == {"Propi", "Tilt"}

\* str.lower() of one piece.
LowerPiece(a) ==
    CASE a = "Propi" -> "propi"
      [] a = "Tilt" -> "tilt"
      [] a = "EC" -> "ec"
      [] a = "WP" -> "wp"
      [] a = "SL" -> "sl"
      [] a = "G" -> "g"
      [] a = SourceOpen -> "[source "
      [] OTHER -> a

\* str.lower()
Lower(text) == [i \in 1..Len(text) |-> LowerPiece(text[i])]

\* `[a-z]+`: the pieces made of small letters.
SmallLetters ==
    {"propi", "tilt", "s", "ec", "wp", "sl", "g"} \cup ChemicalSuffixes \cup (Units \ {"%"})

\* `\w`: the pieces made of word characters.
WordPieces == Digits \cup CapitalStems \cup SmallLetters \cup Formulations

\* `\b` in front of piece i (after the last piece when i = Len(text) + 1).
WordBoundary(text, i) ==
    (i > 1 /\ text[i - 1] \in WordPieces) # (i <= Len(text) /\ text[i] \in WordPieces)

RECURSIVE RunEnd(_, _, _)
\* A greedy `x*` from piece i on: the index after the longest run of pieces of the class.
RunEnd(text, i, class) ==
    IF i <= Len(text) /\ text[i] \in class THEN RunEnd(text, i + 1, class) ELSE i

\* `\[Source \d+\]` matched at piece i: the index of its last piece, or 0.
SourceMatchEnd(text, i) ==
    IF text[i] # SourceOpen THEN 0
    ELSE LET j == RunEnd(text, i + 1, Digits) IN
         IF j > i + 1 /\ j <= Len(text) /\ text[j] = SourceClose THEN j ELSE 0

\* `\d+(?:\.\d+)?(?:\s*(?:percent|...|hectare))` matched at piece i.
NumericMatchEnd(text, i) ==
    IF text[i] \notin Digits THEN 0
    ELSE LET j == RunEnd(text, RunEnd(text, i, Digits), {Blank}) IN
         IF j <= Len(text) /\ text[j] \in Units THEN j ELSE 0

\* `\b[A-Z][a-z]*(?:azole|...|mancozeb)\b` matched at piece i.
ChemicalNameEnd(text, i) ==
    IF ~(WordBoundary(text, i) /\ text[i] \in CapitalStems) THEN 0
    ELSE LET j == RunEnd(text, i + 1, SmallLetters) IN
         IF j > i + 1 /\ text[j - 1] \in ChemicalSuffixes /\ WordBoundary(text, j)
         THEN j - 1 ELSE 0

\* `\b[A-Z][a-z]*\s+\d+(?:\.\d+)?%?\s*(?:EC|WP|SL|G)\b` matched at piece i.
FormulationEnd(text, i) ==
    IF ~(WordBoundary(text, i) /\ text[i] \in CapitalStems) THEN 0
    ELSE LET word == RunEnd(text, i + 1, SmallLetters)
             blanks == RunEnd(text, word, {Blank})
             number == RunEnd(text, blanks, Digits)
             percent == IF number <= Len(text) /\ text[number] = "%" THEN number + 1 ELSE number
             j == RunEnd(text, percent, {Blank})
         IN IF /\ blanks > word
               /\ number > blanks
               /\ j <= Len(text)
               /\ text[j] \in Formulations
               /\ WordBoundary(text, j + 1)
            THEN j ELSE 0

\* chemical_pattern: its first alternative, and the second where the first fails.
ChemicalMatchEnd(text, i) ==
    IF ChemicalNameEnd(text, i) # 0 THEN ChemicalNameEnd(text, i) ELSE FormulationEnd(text, i)

MatchEnd(pattern, text, i) ==
    CASE pattern = "source" -> SourceMatchEnd(text, i)
      [] pattern = "numeric" -> NumericMatchEnd(text, i)
      [] pattern = "chemical" -> ChemicalMatchEnd(text, i)

RECURSIVE FindAll(_, _, _)
\* re.findall(pattern, text) from piece i on: the matches, leftmost first,
\* none overlapping another.
FindAll(pattern, text, i) ==
    IF i > Len(text) THEN <<>>
    ELSE LET j == MatchEnd(pattern, text, i) IN
         IF j = 0 THEN FindAll(pattern, text, i + 1)
         ELSE <<SubSeq(text, i, j)>> \o FindAll(pattern, text, j + 1)

\* `claim in document_content`
Contains(content, claim) ==
    \E i \in 0..(Len(content) - Len(claim)) : SubSeq(content, i + 1, i + Len(claim)) = claim

RECURSIVE Join(_, _)
\* `" ".join(contents)` from content i on.
Join(contents, i) ==
    IF i > Len(contents) THEN <<>>
    ELSE IF i = Len(contents) THEN contents[i]
    ELSE contents[i] \o <<Blank>> \o Join(contents, i + 1)

\* _detect_hallucination_indicators: the indicators, each with the claim it
\* names, the numeric claims first.
DetectHallucinationIndicators(response, contents) ==
    LET document_content == Join([i \in 1..Len(contents) |-> Lower(contents[i])], 1)
        numeric_claims == FindAll("numeric", Lower(response), 1)
        chemical_mentions == FindAll("chemical", response, 1)
        numeric == SelectSeq(numeric_claims, LAMBDA claim : ~Contains(document_content, claim))
        chemical == SelectSeq(chemical_mentions,
                              LAMBDA mention : ~Contains(document_content, Lower(mention)))
    IN [i \in 1..Len(numeric) |-> [kind |-> "numeric", claim |-> numeric[i]]]
       \o [i \in 1..Len(chemical) |-> [kind |-> "chemical", claim |-> chemical[i]]]

\* What _validate_source_grounding reads in a response: its markers and the
\* claims that the documents do not support.
ReadResponse(response, contents) ==
    [kind |-> "generated",
     source_references |-> FindAll("source", response, 1),
     unsupported |-> Len(DetectHallucinationIndicators(response, contents))]

\* A _validate_source_grounding call: the dictionary it returns.
Validate(response, contents) ==
    LET read == ReadResponse(response, contents)
        v == ValidateSourceGrounding(read, contents)
    IN /\ validation' =
            [pc |-> "done", response |-> response, documents |-> contents,
             grounding_score |-> v.grounding_score,
             total_sources |-> Len(contents),
             referenced_sources |-> v.grounding_score.num,
             source_references |-> read.source_references,
             hallucination_risk |-> v.hallucination_risk,
             hallucination_indicators |-> DetectHallucinationIndicators(response, contents),
             is_well_grounded |-> v.is_well_grounded]
       /\ UNCHANGED <<faults, settings, cb, metrics, gen, health, started, probes, store, outage,
                      retrieval, prepared, grounding>>

\* What the responses are made of: three markers, two numeric claims, a
\* chemical name, a trade name and a formulation.
Phrases == {<<SourceOpen, "1", SourceClose>>,
            <<SourceOpen, "2", SourceClose>>,
            <<SourceOpen, "0", "1", SourceClose>>,
            <<Blank, "5", "0", "0", Blank, "rupees">>,
            <<Blank, "5", "0", Blank, "percent">>,
            <<Blank, "Propi", "conazole">>,
            <<Blank, "Tilt">>,
            <<Blank, "2", "5", Blank, "EC">>}

RECURSIVE Concatenations(_)
\* The responses of at most n phrases.
Concatenations(n) ==
    IF n = 0 THEN {<<>>}
    ELSE LET shorter == Concatenations(n - 1) IN
         shorter \cup {t \o p : t \in shorter, p \in Phrases}

Responses == Concatenations(MaxPhrases)

\* doc["content"]: "1500 rupees propiconazole 50" and "percent".
Contents == {<<"1", "5", "0", "0", Blank, "rupees", Blank, "propi", "conazole", Blank, "5", "0">>,
             <<"percent">>}

ContentLists == UNION {[1..n -> Contents] : n \in 0..MaxValidatedDocs}

\* The function keeps nothing from one call to the next; a behaviour holds
\* one call.
NextValidate ==
    /\ validation.pc = "idle"
    /\ \E response \in Responses, contents \in ContentLists : Validate(response, contents)

\* _validate_source_grounding on every response and document list; no
\* store, no gateway caller.
InitValidate ==
    /\ active = {}
    /\ clients = Providers
    /\ primary = "openai"
    /\ fallback = "anthropic"
    /\ max_retries = 0
    /\ retry_delay = 1
    /\ Constructed
    /\ RagIdle

SpecValidate == InitValidate /\ [][NextValidate]_vars

\* =================================================================
\* Properties
\* =================================================================

InFlight(c) == gen[c].pc \in {"calling", "sleeping"}

\* In this step the client call of caller c on provider p ends.
ClientCallEnds(c, p) ==
    /\ gen[c].pc = "calling"
    /\ Current(gen[c]) = p
    /\ gen'[c] # gen[c]

\* ... and _generate_with_retry returns its response.
SuccessRecorded(c, p) == ClientCallEnds(c, p) /\ gen'[c].res[p] = "ok"

\* ... and _generate_with_retry raises (no retry follows).
FailureRecorded(c, p) ==
    ClientCallEnds(c, p) /\ gen'[c].res[p] # "ok" /\ gen'[c].pc # "sleeping"

\* In this step caller c begins a client call on provider p.
CallBegins(c, p) ==
    /\ gen'[c].pc = "calling"
    /\ Current(gen'[c]) = p
    /\ gen[c].pc # "calling" \/ gen'[c].idx > gen[c].idx

\* In this step caller c enters generate_response.
StartStep(c) ==
    /\ started' = started + 1
    /\ c \in active
    /\ ~InFlight(c)
    /\ \A d \in Callers \ {c} : gen'[d] = gen[d]

\* C1: a recorded failure takes a Closed circuit with failure count n to
\* count n + 1, and the circuit is Open after it exactly when that count is
\* 3 (still Closed after the 1st and the 2nd); a recorded success puts the
\* count back to 0; a Closed circuit never counts 3 failures.
C1_OpensOnThirdFailure ==
    [][\A c \in Callers, p \in Providers :
          /\ (FailureRecorded(c, p) /\ cb[p].state = "closed") =>
                /\ cb'[p].failures = cb[p].failures + 1
                /\ cb'[p].state = "open" <=> cb'[p].failures = 3
                /\ cb'[p].state = "closed" <=> cb'[p].failures \in {1, 2}
          /\ SuccessRecorded(c, p) => cb'[p].failures = 0
          /\ cb[p].state = "closed" => cb[p].failures \in 0..2]_vars

\* C1 witness: a circuit that its third consecutive failure has just opened.
C1_Witness ==
    \E p \in Providers :
        /\ cb[p].state = "open" /\ cb[p].failures = 3 /\ cb[p].last_failure = 0
        /\ metrics.error_counts["LLMTimeoutError"] + metrics.error_counts["LLMRateLimitError"]
             + metrics.error_counts["LLMProviderError"] = 3

\* C2: while a circuit is HalfOpen, at most one client call (the probe) is
\* begun on its provider, counting the retries of the probing call and the
\* calls of other generate_response calls.
C2_OneProbeWhileHalfOpen ==
    \A p \in Providers : cb[p].state = "half-open" => probes[p] <= 1

\* C3: every circuit starts Closed, and every change of a circuit's state is
\* Closed -> Open on the 3rd consecutive failure, Open -> HalfOpen after the
\* cooldown, HalfOpen -> Closed on a success or HalfOpen -> Open on a failure.
C3_FourTransitions ==
    /\ \A p \in Providers : cb[p].state = "closed"
    /\ [][\A p \in Providers :
            cb'[p].state # cb[p].state =>
              \/ /\ cb[p].state = "closed" /\ cb'[p].state = "open"
                 /\ cb'[p].failures = 3
                 /\ \E c \in Callers : FailureRecorded(c, p)
              \/ /\ cb[p].state = "open" /\ cb'[p].state = "half-open"
                 /\ cb[p].last_failure > CooldownMinutes
              \/ /\ cb[p].state = "half-open" /\ cb'[p].state = "closed"
                 /\ \E c \in Callers : SuccessRecorded(c, p)
              \/ /\ cb[p].state = "half-open" /\ cb'[p].state = "open"
                 /\ \E c \in Callers : FailureRecorded(c, p)]_vars

\* C4: a success recorded on a HalfOpen circuit leaves it Closed with failure
\* count 0; a failure recorded on a HalfOpen circuit leaves it Open with
\* last_failure set to the time of that failure (no minute elapsed since), so
\* that the provider is skipped again; and a circuit goes from Open to
\* HalfOpen only with more than the cooldown elapsed since last_failure.
C4_ProbeOutcome ==
    [][\A p \in Providers :
          /\ \A c \in Callers :
                (cb[p].state = "half-open" /\ SuccessRecorded(c, p)) =>
                    cb'[p].state = "closed" /\ cb'[p].failures = 0
          /\ \A c \in Callers :
                (cb[p].state = "half-open" /\ FailureRecorded(c, p)) =>
                    /\ cb'[p].state = "open"
                    /\ cb'[p].last_failure = 0
                    /\ cb'[p].failures = cb[p].failures + 1
          /\ (cb[p].state = "open" /\ cb'[p].state = "half-open") =>
                cb[p].last_failure > 5]_vars

\* C4 witness: with one caller, a fourth failure on a provider: the three
\* before it opened the circuit, so the fourth is a failed probe, and the
\* circuit is Open with the cooldown started again.
C4_Witness ==
    /\ active = {"g1"}
    /\ \E p \in Providers :
          /\ cb[p].failures = 4 /\ cb[p].state = "open" /\ cb[p].last_failure = 0
          /\ gen["g1"].res[p] \notin {"None", "ok"}

\* C5 as stated: in one generate_response call no provider's client is
\* called more than max_retries times (for a configuration that retries).
C5_AtMostMaxRetriesCalls ==
    \A c \in Callers, p \in Providers :
        max_retries >= 1 => gen[c].calls[p] <= max_retries

\* C5 amended: in one generate_response call no provider's client is called
\* more than max_retries + 1 times: the first attempt and max_retries retries.
C5_AtMostMaxRetriesPlusOneCalls ==
    \A c \in Callers, p \in Providers : gen[c].calls[p] <= max_retries + 1

\* C5 witness: a call whose every attempt on a provider timed out or was rate
\* limited has ended after max_retries + 1 client calls on it.
C5_Witness ==
    \E c \in Callers, p \in Providers :
        /\ max_retries >= 1
        /\ gen[c].pc = "raised"
        /\ gen[c].res[p] \in TransientErrors
        /\ gen[c].calls[p] = max_retries + 1

\* C6: a client call that ends in LLMProviderError is followed by no backoff
\* wait and by no further client call on that provider in the same
\* generate_response call; the failure is recorded on the provider's circuit
\* and the call goes on to the next candidate (or ends, after the last one).
C6_ProviderErrorEndsProvider ==
    [][\A c \in Callers, p \in Providers :
          /\ (ClientCallEnds(c, p) /\ gen'[c].res[p] = "LLMProviderError") =>
                /\ gen'[c].pc # "sleeping"
                /\ gen'[c].calls[p] = gen[c].calls[p]
                /\ cb'[p].failures = cb[p].failures + 1
                /\ \/ gen'[c].pc = "raised"
                   \/ gen'[c].pc = "calling" /\ gen'[c].idx > gen[c].idx
                                              /\ Current(gen'[c]) # p
          /\ (InFlight(c) /\ gen[c].res[p] = "LLMProviderError") =>
                gen'[c].calls[p] = gen[c].calls[p]]_vars

\* C6 witness: the first attempt on the first candidate ended in
\* LLMProviderError with retries left, and the call is now on the second
\* candidate, having called the first one once.
C6_Witness ==
    \E c \in Callers :
        /\ max_retries >= 1
        /\ gen[c].pc = "calling" /\ gen[c].idx = 2
        /\ gen[c].res[gen[c].order[1]] = "LLMProviderError"
        /\ gen[c].calls[gen[c].order[1]] = 1

\* C7: a generate_response call whose preferred provider is registered and
\* has its circuit Open with the cooldown not elapsed takes the configured
\* order Dedup(<<primary, fallback>>); so when a configured provider is
\* registered with a circuit that is not Open, a client call begins.
C7_PreferredOpenFallsBack ==
    [][\A c \in Callers :
          (/\ StartStep(c)
           /\ gen'[c].provider \in clients
           /\ cb[gen'[c].provider].state = "open"
           /\ cb[gen'[c].provider].last_failure <= 5
           /\ \E q \in {primary, fallback} \cap clients : cb[q].state # "open")
          => gen'[c].pc = "calling"]_vars

\* C8: a generate_response call whose preferred provider is registered (its
\* circuit Open or not) calls no other provider's client.
C8_PreferredOnly ==
    \A c \in Callers :
        gen[c].provider \in clients =>
            \A q \in Providers \ {gen[c].provider} : gen[c].calls[q] = 0

\* C8 witness: the preferred provider was called (its circuit was not Open)
\* and failed, the call has raised, and another configured provider is
\* registered with a Closed circuit and was not called.
C8_Witness ==
    \E c \in Callers :
        /\ gen[c].pc = "raised"
        /\ gen[c].provider \in clients
        /\ gen[c].calls[gen[c].provider] >= 1
        /\ \E q \in ({primary, fallback} \cap clients) \ {gen[c].provider} :
              cb[q].state = "closed" /\ gen[c].calls[q] = 0

\* C9: no client call begins on a provider whose circuit is Open with the
\* cooldown not elapsed.
C9_NoCallWhileOpen ==
    [][\A c \in Callers, p \in Providers :
          CallBegins(c, p) => ~(cb[p].state = "open" /\ cb[p].last_failure <= 5)]_vars

\* C10: when generate_response raises, every configured provider that is
\* registered was called in that call (and failed) or has its circuit Open.
C10_RaisesOnlyWhenAllTried ==
    [][\A c \in Callers :
          (gen'[c].pc = "raised" /\ (StartStep(c) \/ (InFlight(c) /\ gen'[c] # gen[c])))
          => \A q \in {primary, fallback} \cap clients :
                gen'[c].calls[q] >= 1 \/ cb'[q].state = "open"]_vars

\* In this step the generate_response call of caller c ends by raising.
RaisesStep(c) ==
    /\ gen'[c].pc = "raised"
    /\ StartStep(c) \/ (InFlight(c) /\ gen'[c] # gen[c])

\* The candidates of the ended call g on which a client call was made.
Attempted(g) ==
    {i \in 1..Len(ProviderOrder(g.provider)) : g.calls[ProviderOrder(g.provider)[i]] >= 1}

\* The last of them.
LastAttempted(g) ==
    ProviderOrder(g.provider)[CHOOSE i \in Attempted(g) : \A j \in Attempted(g) : j <= i]

\* C11: a generate_response call in which no candidate returned a response
\* raises; the step that raises adds exactly 1 to failed_requests and leaves
\* successful_requests alone; the error raised is the error of the last
\* candidate on which a client call was made (candidates skipped after it do
\* not change it), and the generic LLMError when no candidate was attempted.
C11_RaisesLastObservedError ==
    [][\A c \in Callers :
          /\ RaisesStep(c) =>
                /\ metrics'.failed_requests = metrics.failed_requests + 1
                /\ metrics'.successful_requests = metrics.successful_requests
                /\ \A p \in Providers : gen'[c].res[p] # "ok"
                /\ IF Attempted(gen'[c]) = {}
                   THEN Raised(gen'[c]) = "LLMError"
                   ELSE Raised(gen'[c]) = gen'[c].res[LastAttempted(gen'[c])]
          /\ (gen'[c].pc = "returned" /\ gen'[c] # gen[c]) =>
                /\ \E p \in Providers : gen'[c].res[p] = "ok"
                /\ metrics'.failed_requests = metrics.failed_requests]_vars

\* C11 witness: a call over two candidates has raised; the first candidate
\* was attempted and failed, the second was only skipped, and the error
\* raised is the first candidate's.
C11_Witness ==
    \E c \in Callers :
        LET order == ProviderOrder(gen[c].provider) IN
        /\ gen[c].pc = "raised"
        /\ Len(order) = 2
        /\ gen[c].calls[order[1]] >= 1 /\ gen[c].calls[order[2]] = 0
        /\ Raised(gen[c]) = gen[c].res[order[1]]
        /\ Raised(gen[c]) \in Outcomes \ {"ok"}
        /\ metrics.failed_requests >= 1

\* C12: the provider attempts of one generate_response call are sequential.
\* While the call works on candidate idx, every earlier candidate was skipped
\* (no client call) or has failed, none has returned a response, and no later
\* candidate has been called; a call that has returned got its response from
\* exactly one candidate and never called a candidate after that one.
C12_SequentialAttempts ==
    \A c \in Callers :
        LET g == gen[c]
            order == ProviderOrder(g.provider)
        IN /\ InFlight(c) =>
                /\ g.order = order
                /\ g.calls[order[g.idx]] >= 1
                /\ \A j \in 1..Len(order) :
                      /\ j < g.idx => /\ g.res[order[j]] \in (Outcomes \ {"ok"}) \cup {"None"}
                                      /\ g.res[order[j]] = "None" <=> g.calls[order[j]] = 0
                      /\ j > g.idx => g.calls[order[j]] = 0
           /\ g.pc = "returned" =>
                \E i \in 1..Len(order) :
                    /\ g.res[order[i]] = "ok"
                    /\ \A j \in 1..Len(order) :
                          /\ j < i => g.res[order[j]] # "ok"
                          /\ j > i => g.calls[order[j]] = 0

\* C12 witness: the call returned the response of its second candidate after
\* its first candidate had failed.
C12_Witness ==
    \E c \in Callers :
        LET order == ProviderOrder(gen[c].provider) IN
        /\ gen[c].pc = "returned"
        /\ Len(order) = 2
        /\ gen[c].res[order[1]] \in Outcomes \ {"ok"}
        /\ gen[c].res[order[2]] = "ok"

\* C13: a backoff wait begins only when a client call has failed with a
\* transient error on an attempt i below max_retries, and it always begins
\* then; its length is retry_delay * 2^i; the attempt after the wait is
\* attempt i + 1 on the same provider.  No wait follows a failure on attempt
\* max_retries, and none follows a response.
C13_BackoffDoubles ==
    [][\A c \in Callers :
          /\ (gen[c].pc = "calling" /\ gen'[c].pc = "sleeping") =>
                /\ gen'[c].res[Current(gen[c])] \in {"LLMTimeoutError", "LLMRateLimitError"}
                /\ gen[c].attempt < max_retries
                /\ gen'[c].attempt = gen[c].attempt
                /\ gen'[c].wait_time = retry_delay * 2 ^ gen[c].attempt
          /\ \A p \in Providers :
                (/\ ClientCallEnds(c, p)
                 /\ gen'[c].res[p] \in {"LLMTimeoutError", "LLMRateLimitError"}
                 /\ gen[c].attempt < max_retries) => gen'[c].pc = "sleeping"
          /\ \A p \in Providers :
                (/\ ClientCallEnds(c, p)
                 /\ \/ gen'[c].res[p] = "ok"
                    \/ gen'[c].res[p] = "LLMProviderError"
                    \/ gen[c].attempt >= max_retries) => gen'[c].pc # "sleeping"
          /\ (gen[c].pc = "sleeping" /\ gen'[c] # gen[c]) =>
                /\ gen'[c].pc = "calling"
                /\ gen'[c].attempt = gen[c].attempt + 1
                /\ Current(gen'[c]) = Current(gen[c])]_vars

\* C13 witness: with a base delay of 2 seconds the third attempt (i = 2) has
\* failed with a transient error and the call waits 8 seconds.
C13_Witness ==
    \E c \in Callers :
        /\ retry_delay = 2
        /\ gen[c].pc = "sleeping"
        /\ gen[c].attempt = 2
        /\ gen[c].wait_time = 8

\* The documents of the store in the collections that the last
\* retrieve_documents call queried and that answered.
Hits ==
    {h \in Collections \X (1..MaxHits + 1) :
        /\ \E i \in DOMAIN retrieval.collections : retrieval.collections[i] = h[1]
        /\ h[1] \notin outage
        /\ h[2] <= Len(store[h[1]])}

\* The similarity score of such a document.
HitScore(h) == 100 - store[h[1]][h[2]]

\* The threshold that applies to the last call.
Threshold ==
    IF retrieval.similarity_threshold = NoThreshold THEN 30
    ELSE retrieval.similarity_threshold

\* C14: retrieve_documents returns documents of the pooled hits of the
\* queried collections, each once, with its score and its collection: at
\* most top_k of them, as many as top_k and the number of hits at or above
\* the threshold allow, in non-increasing order of score, none below the
\* threshold, and no hit at or above the threshold that is left out scores
\* strictly higher than a returned one.
C14_TopKAboveThreshold ==
    retrieval.pc = "done" =>
        LET r == retrieval.result
            eligible == {h \in Hits : HitScore(h) >= Threshold}
            returned == {r[i].id : i \in DOMAIN r}
        IN /\ Len(r) <= retrieval.top_k
           /\ Len(r) = Min(retrieval.top_k, Cardinality(eligible))
           /\ returned \subseteq eligible
           /\ Cardinality(returned) = Len(r)
           /\ \A i \in DOMAIN r : /\ r[i].similarity_score = HitScore(r[i].id)
                                   /\ r[i].collection = r[i].id[1]
                                   /\ r[i].similarity_score >= Threshold
           /\ \A i, j \in DOMAIN r : i < j => r[i].similarity_score >= r[j].similarity_score
           /\ \A h \in eligible \ returned :
                 \A i \in DOMAIN r : HitScore(h) <= r[i].similarity_score

\* C14 witness: the hits score 0.9, 0.8, 0.75 and 0.2, the threshold is the
\* default 0.3 and top_k is 3; the result is 0.9, 0.8, 0.75 in that order.
C14_Witness ==
    /\ retrieval.pc = "done"
    /\ outage = {}
    /\ Len(retrieval.collections) = 2
    /\ {HitScore(h) : h \in Hits} = {90, 80, 75, 20}
    /\ retrieval.similarity_threshold = NoThreshold
    /\ retrieval.top_k = 3
    /\ [i \in DOMAIN retrieval.result |-> retrieval.result[i].similarity_score]
         = <<90, 80, 75>>

\* The collections of the last call whose query did not raise, in the order
\* of the call.
Answering == SelectSeq(retrieval.collections, LAMBDA col : col \notin outage)

\* C15: whatever collections are out of service (all of them included),
\* retrieve_documents returns, and it returns what a call on the collections
\* that answered returns: the documents of those collections are neither
\* removed nor changed by the failure of another collection.
C15_OutageOmitsOnlyItsCollection ==
    /\ retrieval.pc \in {"idle", "done"}
    /\ retrieval.pc = "done" =>
          /\ retrieval.result =
                RetrieveDocuments(Answering, retrieval.top_k, retrieval.similarity_threshold)
          /\ Answering = <<>> => retrieval.result = <<>>
          /\ \A h \in Hits :
                (HitScore(h) >= Threshold /\ Cardinality(Hits) <= retrieval.top_k) =>
                    \E i \in DOMAIN retrieval.result : retrieval.result[i].id = h

\* C15 witness: of two collections queried one is out of service and holds
\* the nearest document of the store; the call returned the documents of the
\* other collection.
C15_Witness ==
    /\ retrieval.pc = "done"
    /\ Len(retrieval.collections) = 2
    /\ \E bad \in outage, good \in Collections \ outage :
          /\ store[bad] # <<>> /\ store[good] # <<>>
          /\ store[bad][1] < store[good][1]
          /\ retrieval.result # <<>>
          /\ \A i \in DOMAIN retrieval.result : retrieval.result[i].collection = good

\* C16: what retrieve_documents returns does not depend on the order in
\* which the collections are queried: a call on any permutation of the same
\* collections returns the same documents in the same order.
C16_OrderIndependent ==
    retrieval.pc = "done" =>
        \A l \in CollectionLists :
            {l[i] : i \in DOMAIN l} = {retrieval.collections[i] : i \in DOMAIN retrieval.collections}
            => RetrieveDocuments(l, retrieval.top_k, retrieval.similarity_threshold)
                 = retrieval.result

RECURSIVE TotalLength(_)
\* The length of the string that joins the parts.
TotalLength(parts) ==
    IF parts = <<>> THEN 0 ELSE parts[1].length + TotalLength(Tail(parts))

\* C17: the context is made of the blocks of documents 1..k in that order,
\* block i tagged [Source i]; it is at most 4000 characters long; and when
\* k is less than the number of documents, document k + 1 is one that did
\* not fit behind the first k (no later document is taken, even one that
\* would fit).
C17_ContextIsFittingPrefix ==
    prepared.pc = "done" =>
        LET parts == prepared.context_parts
            docs == prepared.documents
            k == Len(parts)
        IN /\ k <= Len(docs)
           /\ \A i \in 1..k : /\ parts[i].source = i
                               /\ parts[i].length = docs[i] + 29
           /\ TotalLength(parts) <= 4000
           /\ k < Len(docs) => TotalLength(parts) + docs[k + 1] + 29 > 4000

\* C17 witness: of three documents the second does not fit behind the first
\* and the third would; the context holds the first document alone.
C17_Witness ==
    /\ prepared.pc = "done"
    /\ Len(prepared.documents) = 3
    /\ Len(prepared.context_parts) = 1
    /\ prepared.documents[1] + prepared.documents[2] + 58 > 4000
    /\ prepared.documents[1] + prepared.documents[3] + 58 <= 4000

\* In this step a generate_grounded_response call begins.
GroundingBegins ==
    /\ grounding.pc \in {"idle", "returned"}
    /\ grounding' # grounding \/ grounding.documents = <<>>
    /\ grounding'.pc \in {"awaiting", "returned"}

\* C18: generate_grounded_response, called directly or by search_and_generate,
\* ends by returning an answer.  With documents, when the gateway call has
\* raised (LLMTimeoutError, LLMRateLimitError, LLMProviderError, or LLMError
\* with no provider attempted) the answer is the template text, marked
\* fallback_used, with one source for each document and with the grounding
\* fields of _validate_source_grounding computed on the template text.
C18_AlwaysAnswers ==
    /\ grounding.pc \in {"idle", "awaiting", "returned"}
    /\ grounding.pc = "returned" =>
          grounding.response_data.response_type \in {"comprehensive", "fallback"}
    /\ grounding.pc = "awaiting" => (grounding.documents # <<>> /\ gen["g1"].pc # "idle")
    /\ (grounding.pc = "returned" /\ grounding.documents # <<>>) =>
          LET d == grounding.response_data
              n == Len(grounding.documents)
              refs == {d.response.source_references[i] : i \in DOMAIN d.response.source_references}
          IN /\ gen["g1"].pc \in {"returned", "raised"}
             /\ Len(d.sources) = n
             /\ gen["g1"].pc = "raised" =>
                   /\ Raised(gen["g1"]) \in {"LLMTimeoutError", "LLMRateLimitError",
                                             "LLMProviderError", "LLMError"}
                   /\ d.fallback_used
                   /\ d.response.kind = "template"
                   /\ grounding.query = "general" => refs = {ToString(i) : i \in 1..n}
                   /\ grounding.query = "scheme" =>
                         refs = {ToString(i) : i \in {j \in 1..n :
                                    grounding.documents[j].collection = "government_schemes"}}
                   /\ d.grounding_score = [num |-> Cardinality(refs), den |-> n]
             /\ gen["g1"].pc = "returned" => ~d.fallback_used /\ d.response.kind = "generated"

\* C18 witness: search_and_generate with one collection out of service and
\* a gateway call that ended in a rate-limit error has returned the template
\* answer on the one document retrieved.
C18_Witness ==
    /\ grounding.pc = "returned"
    /\ grounding.pipeline
    /\ Cardinality(outage) = 1
    /\ Len(grounding.documents) = 1
    /\ gen["g1"].pc = "raised"
    /\ Raised(gen["g1"]) = "LLMRateLimitError"
    /\ grounding.response_data.fallback_used
    /\ grounding.response_data.grounding_score = [num |-> 1, den |-> 1]

\* C19: a generate_grounded_response call with no document returns at once
\* without a gateway call (the metrics, the circuits and the gateway frames
\* stay as they are); its answer has the no-information text of the language
\* (the English one for a language without a text of its own), whatever the
\* query, grounding score 0, is_well_grounded and hallucination_risk false,
\* and no sources.
C19_EmptyDocumentsStaticAnswer ==
    [][(GroundingBegins /\ grounding'.documents = <<>>) =>
          /\ metrics' = metrics /\ cb' = cb /\ gen' = gen /\ started' = started
          /\ grounding'.pc = "returned"
          /\ LET d == grounding'.response_data IN
             /\ d.response.kind = (IF grounding'.language = "hi" THEN "no_information_hi"
                                    ELSE "no_information_en")
             /\ d.grounding_score.num = 0
             /\ d.is_well_grounded = FALSE
             /\ d.hallucination_risk = FALSE
             /\ d.sources = <<>>]_vars

\* C19 witness: search_and_generate with every collection out of service
\* retrieved nothing and returned the Hindi no-information answer to a scheme
\* query, with no gateway call made.
C19_Witness ==
    /\ grounding.pc = "returned"
    /\ grounding.pipeline
    /\ outage = Collections
    /\ grounding.documents = <<>>
    /\ grounding.query = "scheme"
    /\ grounding.language = "hi"
    /\ grounding.response_data.response.kind = "no_information_hi"
    /\ started = 0
    /\ metrics.total_requests = 0

\* C20: the grounding score of every answer returned lies in [0, 1]: the
\* number of distinct sources cited is at most the number of documents (at
\* most 1 when there is none).
C20_GroundingScoreInUnitInterval ==
    grounding.pc = "returned" =>
        /\ grounding.response_data.grounding_score.num >= 0
        /\ grounding.response_data.grounding_score.num
             <= grounding.response_data.grounding_score.den

RECURSIVE StripZeros(_)
\* The digits of a number without its leading zeros.
StripZeros(digits) ==
    IF Len(digits) > 1 /\ digits[1] = "0" THEN StripZeros(Tail(digits)) ELSE digits

\* The number N of a marker "[Source N]".
SourceNumber(marker) == StripZeros(SubSeq(marker, 2, Len(marker) - 1))

\* The source numbers cited in the response of the validated call.
CitedNumbers ==
    {SourceNumber(validation.source_references[i]) : i \in DOMAIN validation.source_references}

\* max(number of supplied documents, 1)
SuppliedOrOne == IF Len(validation.documents) > 1 THEN Len(validation.documents) ELSE 1

\* C21: the grounding score of an answer is the number of distinct source
\* numbers N it cites as [Source N], divided by max(number of supplied
\* documents, 1); a number cited several times counts once.
C21_ScoreCountsDistinctNumbers ==
    validation.pc = "done" =>
        validation.grounding_score.num * SuppliedOrOne
            = Cardinality(CitedNumbers) * validation.grounding_score.den

\* C22: an answer is well grounded exactly when its grounding score is
\* strictly above one half and it has no hallucination indicator; it is a
\* hallucination risk exactly when it has an indicator; so an answer that
\* cites exactly half of the documents is not well grounded, and no answer is
\* both well grounded and a hallucination risk.
C22_WellGroundedAboveHalfNoIndicator ==
    validation.pc = "done" =>
        LET score == validation.grounding_score IN
        /\ validation.is_well_grounded
             <=> (2 * score.num > score.den /\ validation.hallucination_indicators = <<>>)
        /\ validation.hallucination_risk <=> validation.hallucination_indicators # <<>>
        /\ 2 * score.num = score.den => ~validation.is_well_grounded
        /\ ~(validation.is_well_grounded /\ validation.hallucination_risk)

\* An answer that cites one of two documents and has no indicator; one that
\* cites both [Source 1] and [Source 2] of four.
C22_Witness ==
    /\ validation.pc = "done"
    /\ Len(validation.documents) = 4
    /\ Len(validation.source_references) = 2
    /\ validation.grounding_score = [num |-> 2, den |-> 4]
    /\ validation.hallucination_indicators = <<>>
    /\ ~validation.is_well_grounded

\* C23: for every non-empty document list, the sources of the returned
\* answer hold one descriptor for each supplied document, in the supplied
\* order, on the generated path and on the template path, also for the
\* documents that the context left out; and the grounding score is taken
\* over that same number of sources.
C23_OneSourcePerDocument ==
    (grounding.pc = "returned" /\ grounding.documents # <<>>) =>
        LET documents == grounding.documents
            sources == grounding.response_data.sources
        IN /\ Len(sources) = Len(documents)
           /\ \A i \in 1..Len(documents) :
                 /\ sources[i].id = documents[i].id
                 /\ sources[i].collection = documents[i].collection
                 /\ sources[i].similarity_score = documents[i].similarity_score
           /\ grounding.response_data.grounding_score.den = Len(documents)

\* A generated answer on two different documents, the second of which did
\* not fit in the context.
C23_Witness ==
    /\ grounding.pc = "returned"
    /\ Len(grounding.documents) = 2
    /\ grounding.documents[1] # grounding.documents[2]
    /\ Len(prepared.context_parts) = 1
    /\ ~grounding.response_data.fallback_used
    /\ grounding.response_data.response.kind = "generated"
    /\ Len(grounding.response_data.sources) = 2

\* The units that the specification lists for a numeric claim.
ListedUnits == {"%", "rupees", "rs", "kg", "quintal", "acre", "hectare"}

\* A number followed by one of the listed units.
NumberWithUnit(token) ==
    \E k \in 1..(Len(token) - 1) :
        /\ \A i \in 1..k : token[i] \in Digits
        /\ \A i \in (k + 1)..(Len(token) - 1) : token[i] = Blank
        /\ token[Len(token)] \in ListedUnits

\* The pieces i..j of the response are a chemical name or a product with
\* its formulation.
ProductShaped(response, i, j) ==
    ChemicalNameEnd(response, i) = j \/ FormulationEnd(response, i) = j

\* The validated response holds a number with a unit, or a chemical or
\* product name, that the documents do not contain.
HoldsUnsupportedToken ==
    LET response == validation.response
        document_content ==
            Join([d \in 1..Len(validation.documents) |-> Lower(validation.documents[d])], 1)
    IN \E i \in 1..Len(response) : \E j \in i..Len(response) :
          LET token == Lower(SubSeq(response, i, j)) IN
          /\ NumberWithUnit(token) \/ ProductShaped(response, i, j)
          /\ ~Contains(document_content, token)

\* C24: with documents supplied, an answer is a hallucination risk, with
\* indicators, exactly when it holds a number with a unit suffix (%, rupees,
\* rs, kg, quintal, acre, hectare) or a chemical or product-shaped name that
\* is not a substring of the concatenation of the document contents, compared
\* case-insensitively.
C24_RiskIffUnsupportedToken ==
    (validation.pc = "done" /\ validation.documents # <<>>) =>
        /\ validation.hallucination_risk <=> HoldsUnsupportedToken
        /\ (validation.hallucination_indicators # <<>>) <=> HoldsUnsupportedToken

\* The number of entries of the error tally.
ErrorTally(met) ==
    met.error_counts["LLMTimeoutError"] + met.error_counts["LLMRateLimitError"]
        + met.error_counts["LLMProviderError"]

\* C25: in a generate_response call, the step in which a candidate fails for
\* good (no retry left, or LLMProviderError) adds exactly 1 to the failure
\* count of its circuit, whatever the number of attempts made, and exactly
\* one entry to the error tally, under the kind of the error, and the call
\* goes on to the next candidate or is over; a failed attempt that is retried
\* changes no circuit and no tally; and a response after a retry leaves the
\* circuit Closed with failure count 0.
C25_FailedCandidateCountsOnce ==
    [][\A c \in Callers : \A p \in Providers :
          /\ FailureRecorded(c, p) =>
                /\ cb'[p].failures = cb[p].failures + 1
                /\ ErrorTally(metrics') = ErrorTally(metrics) + 1
                /\ metrics'.error_counts[gen'[c].res[p]]
                     = metrics.error_counts[gen'[c].res[p]] + 1
                /\ \/ gen'[c].pc = "raised"
                   \/ gen'[c].pc = "calling" /\ gen'[c].idx > gen[c].idx
          /\ (ClientCallEnds(c, p) /\ gen'[c].pc = "sleeping") =>
                /\ cb' = cb
                /\ metrics'.error_counts = metrics.error_counts
          /\ (SuccessRecorded(c, p) /\ gen[c].attempt > 0) =>
                /\ cb'[p].state = "closed"
                /\ cb'[p].failures = 0]_vars

\* One call whose first candidate failed after two attempts and counts one
\* failure and one tally entry, and whose second candidate is being called.
C25_Witness ==
    /\ started = 1
    /\ gen["g1"].pc = "calling"
    /\ Current(gen["g1"]) = "anthropic"
    /\ gen["g1"].calls["openai"] = 2
    /\ gen["g1"].res["openai"] = "LLMTimeoutError"
    /\ cb["openai"].failures = 1
    /\ cb["openai"].state = "closed"
    /\ ErrorTally(metrics) = 1

\* The failures counted by all the circuits.
FailuresCounted == cb["openai"].failures + cb["anthropic"].failures

\* C26: no update of the shared state is lost on the event loop: whatever
\* the interleaving of the calls at their suspension points, total_requests
\* is the number of generate_response calls made, and as long as no success
\* was recorded the failure counts add up to the number of failures recorded
\* (two overlapping failures never count as one).
C26_NoLostUpdate ==
    /\ metrics.total_requests = started
    /\ metrics.successful_requests = 0 => FailuresCounted = ErrorTally(metrics)

\* Two calls, each of them suspended in a backoff, that both failed on the
\* one provider: two requests and two failures are counted.
C26_Witness ==
    /\ active = Callers
    /\ started = 2
    /\ \A c \in Callers :
          /\ gen[c].pc = "raised"
          /\ gen[c].calls["openai"] = 2
          /\ gen[c].res["openai"] \in TransientErrors
    /\ metrics.total_requests = 2
    /\ cb["openai"].failures = 2

\* C27: in every reachable state and for every provider, a Closed circuit
\* counts at most 2 failures, an Open or HalfOpen circuit counts at least 3,
\* and an Open circuit has a last-failure time; under every interleaving of
\* generate_response calls and health checks.
C27_StateAgreesWithCount ==
    \A p \in Providers :
        /\ cb[p].state = "closed" => cb[p].failures <= FailureThreshold - 1
        /\ cb[p].state \in {"open", "half-open"} => cb[p].failures >= FailureThreshold
        /\ cb[p].state = "open" => cb[p].last_failure # NoFailure

\* A circuit made HalfOpen by a health check that is suspended in its probe,
\* while a generate_response call is suspended too.
C27_Witness ==
    /\ health.pc = "calling"
    /\ cb[ClientOrder[health.idx]].state = "half-open"
    /\ cb[ClientOrder[health.idx]].failures >= FailureThreshold
    /\ \E c \in Callers : InFlight(c)

\* C28: in every reachable state, under every interleaving of
\* generate_response calls and metrics resets, successful_requests +
\* failed_requests is at most total_requests, and equal to it when no call is
\* in flight; also after a reset made while a call is in flight.
C28_EndedAtMostTotal ==
    /\ metrics.successful_requests + metrics.failed_requests <= metrics.total_requests
    /\ (\A c \in Callers : ~InFlight(c)) =>
          metrics.successful_requests + metrics.failed_requests = metrics.total_requests

\* In this step health_check runs: it begins, or one of its probes ends.
HealthStep == health' # health

\* C29: health_check leaves the state, the failure count and the last-failure
\* time of every circuit unchanged, and the request metrics unchanged,
\* whatever the outcome of its probes; and it begins no probe on a provider
\* whose circuit is Open.
C29_HealthChangesNothing ==
    [][HealthStep =>
          /\ cb' = cb
          /\ metrics' = metrics
          /\ health'.pc = "calling" => cb[ClientOrder[health'.idx]].state # "open"]_vars

\* C30: an Open circuit does not stay Open for ever.  A generate_response
\* call that comes to a provider whose circuit is Open with the cooldown
\* elapsed begins a client call on it and is not skipped; a response to a call
\* leaves the circuit Closed with failure count 0; and so, when calls keep
\* arriving and the provider ends up answering, every Open circuit is
\* eventually Closed.
C30_OpenEventuallyClosed ==
    /\ [][\A c \in Callers :
            /\ (/\ StartStep(c)
                /\ cb["openai"].state = "open"
                /\ cb["openai"].last_failure > CooldownMinutes)
                  => CallBegins(c, "openai")
            /\ SuccessRecorded(c, "openai")
                  => cb'["openai"].state = "closed" /\ cb'["openai"].failures = 0]_vars
    /\ (cb["openai"].state = "open") ~> (cb["openai"].state = "closed")

\* The call that came after the cooldown is waiting for the provider: the
\* circuit, Open before, lets it through.
C30_Witness ==
    /\ cb["openai"].state = "half-open"
    /\ cb["openai"].failures >= FailureThreshold
    /\ cb["openai"].last_failure > CooldownMinutes
    /\ gen["g1"].pc = "calling"
    /\ Current(gen["g1"]) = "openai"

TypeOK ==
    /\ clients \subseteq Providers
    /\ \A p \in Providers : cb[p].state \in {"closed", "open", "half-open"}
    /\ \A c \in Callers : gen[c].pc \in {"idle", "calling", "sleeping", "returned", "raised"}
====
